---- MODULE Spec2Model ----
(***************************************************************************)
(* A model of go-supertonic, an OpenAI-compatible text-to-speech HTTP      *)
(* service.  The server part (main.go) is translated from the source:      *)
(* main with findAssetsDir and verifyAssets, handleTTSRequest,             *)
(* validateRequest, generateSpeech, convertToFormat and tts.GetVoicePath.  *)
(* Every request is served by its own goroutine                            *)
(* (net/http), so the steps of generateSpeech of different requests        *)
(* interleave.  The inside of textToSpeech.Call (tokenizer, length         *)
(* regulator, denoiser, stitcher) is modelled from the design document.    *)
(*                                                                         *)
(* Numbers: a speed is an integer number of hundredths (25 is 0.25, 400 is *)
(* 4.0); NaN is the IEEE not-a-number, for which every ordered comparison  *)
(* is false.  os.Stat results are inputs of the step that reads them.      *)
(*                                                                         *)
(* Specifications: Spec is the listening server and its requests; MainSpec *)
(* is the process from flag.Parse on, serving its first request; CancelSpec*)
(* is Spec with clients that disconnect; VoiceSpec is one call of          *)
(* tts.GetVoicePath; PipeSpec is one run of the synthesis pipeline.        *)
(***************************************************************************)
EXTENDS Integers, Sequences, FiniteSets, TLC

\* Number of requests the server receives (each on its own goroutine).
NumRequests == 2

Reqs == 1..NumRequests

\* The float64 NaN, which flag.Float64Var accepts for --default-speed.
NaN == 999999

VARIABLES
  config,   \* the process-wide ServerConfig (AssetsDir, TotalStep, DefaultSpeed)
  recv,     \* recv[r]: the HTTP request r as it arrived (*http.Request)
  pc,       \* pc[r]: where request r's handler goroutine is
  req,      \* req[r]: the TTSRequest value of request r
  resp,     \* resp[r]: what was written to r's http.ResponseWriter
  bundle,   \* bundle[r]: the *TextToSpeech r loaded: none / loaded / destroyed
  style,    \* style[r]: the *Style r loaded: none / loaded / destroyed
  work,     \* work[r]: model loads and runs request r has started
  call,     \* call[r]: the arguments textToSpeech.Call was invoked with
  trace,    \* trace[r]: the calls generateSpeech made for r, in order, with
            \* the deferred Destroy calls it ran on its return
  tmpfiles,    \* tmpfiles[r]: what wavToBytes did with its temporary file for r
  cancelled,   \* cancelled[r]: r's client has gone (r.Context() is done)
  main,        \* where main() is, and the error of its log.Fatalf
  cmdLinePath, \* the --assets-dir flag (empty: not given)
  seen,        \* what os.Stat and os.Getwd answered to main()
  lookup,      \* one call of tts.GetVoicePath: its argument, what os.Stat
               \* answers, and what it returned
  \* One run of the synthesis pipeline (the inside of textToSpeech.Call):
  pText,      \* the text of the run, a sequence of characters
  pSpeed,     \* the speed of the run, in hundredths
  pTotalStep, \* the number of denoising steps of the run
  durations,  \* the duration predictor's output per symbol, in tenths of a frame
  chunks,     \* the TextChunks of the text, in source order
  worker,     \* worker[c]: the denoiser state of chunk c (state, step, latent)
  arena,      \* arena[c]: the chunk results, indexed by chunk order
  completed,  \* the chunks in the order their computations completed
  out         \* the SynthesisResult of the run, once stitched

startupVars == <<main, cmdLinePath, seen>>

requestVars ==
  <<recv, pc, req, resp, bundle, style, work, call, trace, tmpfiles, cancelled>>

serverVars ==
  <<config, recv, pc, req, resp, bundle, style, work, call, trace, tmpfiles,
    cancelled, startupVars, lookup>>

pipeVars == <<pText, pSpeed, pTotalStep, durations, chunks, worker, arena, completed, out>>

vars == <<serverVars, pipeVars>>

----------------------------------------------------------------------------
\* IEEE comparisons: false when either side is NaN.
FloatLt(a, b) == a # NaN /\ b # NaN /\ a < b

FloatGt(a, b) == a # NaN /\ b # NaN /\ a > b

\* float32(x) of a float64: rounding to nearest is monotone and leaves 0.25,
\* 4.0 and NaN fixed; on the hundredths grid it moves no value across them.
Float32(x) == x

\* tts.VoiceMapping
VoiceMapping ==
  [v \in {"M1", "M2", "M3", "M4", "M5", "F1", "F2", "F3", "F4", "F5"} |->
     <<"assets/voice_styles", v>>]

\* GetVoicePath looking under /var/lib/supertonic first.
GetVoicePathAltFirst(voiceName, statDefault, statAlt) ==
  IF voiceName \notin DOMAIN VoiceMapping
    THEN [path |-> <<>>, err |-> "unsupported voice"]
    ELSE IF statAlt
      THEN [path |-> <<"/var/lib/supertonic">> \o VoiceMapping[voiceName],
            err |-> "nil"]
      ELSE IF statDefault
        THEN [path |-> VoiceMapping[voiceName], err |-> "nil"]
        ELSE [path |-> <<>>, err |-> "voice style file not found"]

\* tts.GetVoicePath(voiceName); statDefault and statAlt are the results of the
\* two os.Stat calls (TRUE: err == nil).
GetVoicePath(voiceName, statDefault, statAlt) ==
  IF voiceName \notin DOMAIN VoiceMapping
    THEN [path |-> <<>>, err |-> "unsupported voice"]
    ELSE IF statDefault
      THEN [path |-> VoiceMapping[voiceName], err |-> "nil"]
      ELSE IF statAlt
        THEN [path |-> <<"/var/lib/supertonic">> \o VoiceMapping[voiceName],
              err |-> "nil"]
        ELSE [path |-> <<>>, err |-> "voice style file not found"]

validFormats == {"wav", "mp3", "opus", "aac", "flac", "pcm"}

\* A validateRequest that sets the voice whatever the request says.
FillDefaultsAlways(r, cfg) ==
  [r EXCEPT
     !.Voice = "F5",
     !.Model = IF r.Model = "" THEN "tts-1" ELSE r.Model,
     !.ResponseFormat = IF r.ResponseFormat = "" THEN "wav" ELSE r.ResponseFormat,
     !.Speed = IF r.Speed = 0 THEN cfg.DefaultSpeed ELSE r.Speed]

\* The validateRequest of the older sources, whose default voice is alloy.
FillDefaultsAlloy(r, cfg) ==
  [r EXCEPT
     !.Voice = IF r.Voice = "" THEN "alloy" ELSE r.Voice,
     !.Model = IF r.Model = "" THEN "tts-1" ELSE r.Model,
     !.ResponseFormat = IF r.ResponseFormat = "" THEN "wav" ELSE r.ResponseFormat,
     !.Speed = IF r.Speed = 0 THEN cfg.DefaultSpeed ELSE r.Speed]

\* The defaults validateRequest writes into *req.
FillDefaults(r, cfg) ==
  [r EXCEPT
     !.Voice = IF r.Voice = "" THEN "F5" ELSE r.Voice,
     !.Model = IF r.Model = "" THEN "tts-1" ELSE r.Model,
     !.ResponseFormat = IF r.ResponseFormat = "" THEN "wav" ELSE r.ResponseFormat,
     !.Speed = IF r.Speed = 0 THEN cfg.DefaultSpeed ELSE r.Speed]

\* The speed check of validateRequest: TRUE when the speed is refused.
SpeedRejected(speed) == FloatLt(speed, 25) \/ FloatGt(speed, 400)

\* validateRequest(req): the request as it leaves it, and the error.
validateRequest(r, cfg, statDefault, statAlt) ==
  IF r.Input = <<>>
    THEN [req |-> r, err |-> "input text is required"]
    ELSE LET d == FillDefaults(r, cfg)
             v == GetVoicePath(d.Voice, statDefault, statAlt)
         IN [req |-> d,
             err |-> IF v.err # "nil" THEN v.err
                     ELSE IF d.Model # "tts-1" /\ d.Model # "tts-1-hd"
                       THEN "unsupported model"
                     ELSE IF SpeedRejected(d.Speed)
                       THEN "speed must be between 0.25 and 4.0"
                     ELSE IF d.ResponseFormat \notin validFormats
                       THEN "unsupported response format"
                     ELSE "nil"]

\* The step count generateSpeech passes to Call (10 for the HD model).
totalStepFor(r, cfg) == IF r.Model = "tts-1-hd" THEN 10 ELSE cfg.TotalStep

\* What can happen to the temporary file of wavToBytes: it is created and
\* read back, os.CreateTemp fails, or io.ReadAll fails.
TempFileResults == {"ok", "create error", "read error"}

Reverse(s) == [i \in 1..Len(s) |-> s[Len(s) + 1 - i]]

\* wavToBytes with its clean-up written at its end: the return after a read
\* error skips it.
wavToBytesCleanupAtEnd(tmp) ==
  IF tmp = "create error"
    THEN [bytes |-> "nil", files |-> <<[op |-> "os.CreateTemp", ok |-> FALSE]>>]
  ELSE IF tmp = "read error"
    THEN [bytes |-> "nil",
          files |-> <<[op |-> "os.CreateTemp", ok |-> TRUE],
                      [op |-> "io.ReadAll", ok |-> FALSE]>>]
  ELSE [bytes |-> "wav bytes",
        files |-> <<[op |-> "os.CreateTemp", ok |-> TRUE],
                    [op |-> "io.ReadAll", ok |-> TRUE],
                    [op |-> "tmpfile.Close", ok |-> TRUE],
                    [op |-> "os.Remove", ok |-> TRUE]>>]

\* wavToBytes(audioData, sampleRate): the bytes it returns (nil after an
\* error, which it only logs) and what it did with its temporary file.  The
\* two deferred calls run on every return after the file was created, last
\* deferred first.
wavToBytes(tmp) ==
  IF tmp = "create error"
    THEN [bytes |-> "nil", files |-> <<[op |-> "os.CreateTemp", ok |-> FALSE]>>]
    ELSE LET deferred == Reverse(<<"os.Remove", "tmpfile.Close">>) IN
         [bytes |-> IF tmp = "read error" THEN "nil" ELSE "wav bytes",
          files |-> <<[op |-> "os.CreateTemp", ok |-> TRUE],
                      [op |-> "io.ReadAll", ok |-> tmp # "read error"]>>
                    \o [i \in DOMAIN deferred |-> [op |-> deferred[i], ok |-> TRUE]]]

\* A convertToFormat that hands out the WAV bytes whatever the format.
convertToFormatAny(format, tmpOk) ==
  [audio |-> wavToBytes(tmpOk).bytes, err |-> "nil", files |-> wavToBytes(tmpOk).files]

\* convertToFormat(wav, sampleRate, format); tmpOk: what happens to the
\* temporary file of wavToBytes.
convertToFormat(format, tmpOk) ==
  IF format = "wav"
    THEN [audio |-> wavToBytes(tmpOk).bytes, err |-> "nil",
          files |-> wavToBytes(tmpOk).files]
    ELSE [audio |-> "nil", err |-> "format not implemented yet", files |-> <<>>]

\* getContentType(format)
getContentType(format) ==
  CASE format = "mp3" -> "audio/mpeg"
    [] format = "opus" -> "audio/opus"
    [] format = "aac" -> "audio/aac"
    [] format = "flac" -> "audio/flac"
    [] format = "wav" -> "audio/wav"
    [] format = "pcm" -> "audio/L16;rate=24000"
    [] OTHER -> "audio/wav"

\* SymbolVocabulary: the characters that have an index.
Vocabulary == {"h", "i", "."}

\* Tokenizer: a character without a mapping is an error (UnknownSymbol).
HasUnknownSymbol(text) == \E i \in DOMAIN text : text[i] \notin Vocabulary

----------------------------------------------------------------------------
\* The zero value of TTSRequest (var req TTSRequest).
ZeroRequest ==
  [Model |-> "", Input |-> <<>>, Voice |-> "", ResponseFormat |-> "", Speed |-> 0]

\* No request has arrived yet.
NoRequest == [method |-> "", bodyOk |-> FALSE, body |-> ZeroRequest]

NoResponse == [status |-> 0, contentType |-> "", error |-> "", audio |-> "none"]

\* A request body that passes with every default.
BaseBody == [ZeroRequest EXCEPT !.Input = <<"h", "i">>]

\* A body with every field given: the lower speed bound, the HD model, mp3.
FullBody ==
  [Model |-> "tts-1-hd", Input |-> <<"h", "i", ".">>, Voice |-> "M1",
   ResponseFormat |-> "mp3", Speed |-> 25]

\* The decoded JSON bodies the clients send.
Bodies ==
  {BaseBody, FullBody,
   [BaseBody EXCEPT !.Speed = 400, !.ResponseFormat = "wav"],
   [BaseBody EXCEPT !.Input = <<"h", "#">>],
   [BaseBody EXCEPT !.Input = <<>>],
   [BaseBody EXCEPT !.Voice = "alloy"],
   [BaseBody EXCEPT !.Model = "gpt"],
   [BaseBody EXCEPT !.ResponseFormat = "ogg"],
   [BaseBody EXCEPT !.Speed = 24],
   [BaseBody EXCEPT !.Speed = 401]}

\* The HTTP requests: method, whether the body decodes as JSON, the decoded body.
RequestInputs ==
  {[method |-> "POST", bodyOk |-> TRUE, body |-> b] : b \in Bodies}
  \cup {[method |-> "GET", bodyOk |-> TRUE, body |-> BaseBody],
        [method |-> "POST", bodyOk |-> FALSE, body |-> ZeroRequest]}

----------------------------------------------------------------------------
\* A file path is the sequence of its components; "/" is the root.
IsAbs(p) == p # <<>> /\ p[1] = "/"

\* filepath.Join(dir, name)
Join(dir, name) == dir \o <<name>>

NotDot(c) == c # "."

\* filepath.Clean: the "." components go.
Clean(p) == SelectSeq(p, NotDot)

\* The working directory of the process.
Cwd == <<"/", "home", "tts">>

\* filepath.Abs(p): an absolute path is cleaned; a relative one is joined to
\* os.Getwd(), whose failure is Abs's only error (the path is then empty).
Abs(p, getwdOk) ==
  IF IsAbs(p) THEN [path |-> Clean(p), err |-> "nil"]
  ELSE IF getwdOk THEN [path |-> Cwd \o Clean(p), err |-> "nil"]
  ELSE [path |-> <<>>, err |-> "getwd"]

systemPath == <<"/", "var", "lib", "supertonic", "assets">>

localPath == <<".", "assets">>

\* What os.Stat answers for a path: a directory, something else, an error.
StatResults == {"dir", "file", "err"}

\* findAssetsDir(cmdLinePath); statCmd, statSystem and statLocal are the answers
\* of os.Stat for the three paths, getwdOk that of os.Getwd inside filepath.Abs.
findAssetsDir(cmdLine, statCmd, statSystem, statLocal, getwdOk) ==
  IF cmdLine # <<>>
    THEN IF statCmd = "err"
           THEN [path |-> <<>>, err |-> "specified assets directory not accessible"]
         ELSE IF statCmd # "dir"
           THEN [path |-> <<>>, err |-> "specified assets directory is not a directory"]
         ELSE IF Abs(cmdLine, getwdOk).err # "nil"
           THEN [path |-> cmdLine, err |-> "nil"]
         ELSE [path |-> Abs(cmdLine, getwdOk).path, err |-> "nil"]
  ELSE IF statSystem = "dir"
    THEN [path |-> Abs(systemPath, getwdOk).path, err |-> "nil"]
  ELSE IF statLocal = "dir"
    THEN [path |-> Abs(localPath, getwdOk).path, err |-> "nil"]
  ELSE [path |-> <<>>, err |-> "could not find assets directory in any default location"]

requiredFiles ==
  <<"duration_predictor.onnx", "text_encoder.onnx", "vector_estimator.onnx",
    "vocoder.onnx", "tts.json", "unicode_indexer.json">>

Min(S) == CHOOSE x \in S : \A y \in S : x <= y

\* verifyAssets with its loop returning at the end: the last missing file is named.
verifyAssetsLast(assetsDir, missing, missingVoices) ==
  LET onnxDir == Join(assetsDir, "onnx")
      failing == {i \in DOMAIN requiredFiles : requiredFiles[i] \in missing}
  IN IF failing # {}
       THEN [err |-> "missing required ONNX file",
             path |-> Join(onnxDir,
                           requiredFiles[CHOOSE i \in failing : \A j \in failing : j <= i]),
             warnings |-> {}]
       ELSE [err |-> "nil", path |-> <<>>,
             warnings |-> {v \in DOMAIN VoiceMapping : v \in missingVoices}]

\* verifyAssets(); missing and missingVoices are the required files and the
\* voices' style files for which os.Stat fails.  A missing style file is
\* logged as a warning and is no error.
verifyAssets(assetsDir, missing, missingVoices) ==
  LET onnxDir == Join(assetsDir, "onnx")
      failing == {i \in DOMAIN requiredFiles : requiredFiles[i] \in missing}
  IN IF failing # {}
       THEN [err |-> "missing required ONNX file",
             path |-> Join(onnxDir, requiredFiles[Min(failing)]),
             warnings |-> {}]
       ELSE [err |-> "nil", path |-> <<>>,
             warnings |-> {v \in DOMAIN VoiceMapping : v \in missingVoices}]

\* ServerConfig as flag.Parse leaves it (AssetsDir is not set yet): the flag
\* defaults (--total-step 5, --default-speed 1.0) with one flag varied.
FlagValues ==
  {[AssetsDir |-> <<>>, TotalStep |-> t, DefaultSpeed |-> 100] : t \in {-1, 0, 5, 20}}
  \cup {[AssetsDir |-> <<>>, TotalStep |-> 5, DefaultSpeed |-> d] : d \in {500, NaN}}

\* The configuration of a server that found its assets in the system-wide
\* location, started with the flag defaults, with --total-step 0 or with
\* --default-speed NaN.
ConfigValues ==
  {[c EXCEPT !.AssetsDir = systemPath] :
     c \in {f \in FlagValues : f.TotalStep \in {0, 5} /\ f.DefaultSpeed \in {100, NaN}}}

\* The values of --assets-dir: not given, an absolute path, a relative path.
CmdLinePaths == {<<>>, <<"/", "srv", "assets">>, <<".", "models">>}

\* No log.Fatalf has happened.
NoError == [msg |-> "", err |-> "nil", path |-> <<>>]

\* main() has asked the file system nothing yet.
Unseen ==
  [cmd |-> "unseen", system |-> "unseen", local |-> "unseen", getwd |-> "unseen",
   missing |-> {}, voices |-> {}]

\* The sets of voices whose style file is missing when the server starts.
MissingVoiceSets == {{}, {"F5"}, DOMAIN VoiceMapping}

----------------------------------------------------------------------------
\* No pipeline run is being followed.
PipelineIdle ==
  /\ pText = <<>>
  /\ pSpeed = 100
  /\ pTotalStep = 1
  /\ durations = [s \in Vocabulary |-> 0]
  /\ chunks = <<>>
  /\ worker = <<>>
  /\ arena = <<>>
  /\ completed = <<>>
  /\ out = [done |-> FALSE, failed |-> FALSE, samples |-> <<>>, frames |-> 0]

\* No request has arrived.
RequestsIdle ==
  /\ recv = [r \in Reqs |-> NoRequest]
  /\ pc = [r \in Reqs |-> "idle"]
  /\ req = [r \in Reqs |-> ZeroRequest]
  /\ resp = [r \in Reqs |-> NoResponse]
  /\ bundle = [r \in Reqs |-> "none"]
  /\ style = [r \in Reqs |-> "none"]
  /\ work = [r \in Reqs |-> 0]
  /\ call = [r \in Reqs |-> <<>>]
  /\ trace = [r \in Reqs |-> <<>>]
  /\ tmpfiles = [r \in Reqs |-> <<>>]
  /\ cancelled = [r \in Reqs |-> FALSE]

\* The voice names asked for: the mapped ones, OpenAI's, and the empty name.
VoiceNames ==
  DOMAIN VoiceMapping \cup {"", "alloy", "echo", "fable", "onyx", "nova", "shimmer"}

\* No call of GetVoicePath is being followed.
NoLookup ==
  [voiceName |-> "", statDefault |-> FALSE, statAlt |-> FALSE, returned |-> FALSE,
   path |-> <<>>, err |-> "nil"]

\* main() has reached http.ListenAndServe, its assets in the system-wide location.
Listening ==
  /\ lookup = NoLookup
  /\ main = [phase |-> "listening", fatal |-> NoError]
  /\ cmdLinePath = <<>>
  /\ seen = [Unseen EXCEPT !.system = "dir"]

Init ==
  /\ config \in ConfigValues
  /\ Listening
  /\ RequestsIdle
  /\ PipelineIdle

\* sendError(w, message, status) / http.Error, and the handler's return.
sendError(r, message, status) ==
  /\ resp' = [resp EXCEPT ![r] =
                [status |-> status, contentType |-> "application/json",
                 error |-> message, audio |-> "none"]]
  /\ pc' = [pc EXCEPT ![r] = "done"]

\* http.Error(w, message, status): a plain-text body, and the handler's return.
httpError(r, message, status) ==
  /\ resp' = [resp EXCEPT ![r] =
                [status |-> status, contentType |-> "text/plain; charset=utf-8",
                 error |-> message, audio |-> "none"]]
  /\ pc' = [pc EXCEPT ![r] = "done"]

\* A handler that tries the failed step again in place of answering.
generateSpeechRetried(r, err) == resp' = resp /\ pc' = pc

\* The error of generateSpeech sent as it is.
generateSpeechFailedPlain(r, err) == sendError(r, err, 500)

\* handleTTSRequest's answer to an error of generateSpeech.
generateSpeechFailed(r, err) ==
  sendError(r, "Speech generation failed: " \o err, 500)

\* The deferred calls in the order they were deferred.
DeferredInOrder(r) ==
  (IF bundle[r] = "loaded" THEN <<[op |-> "textToSpeech.Destroy", ok |-> TRUE]>> ELSE <<>>)
  \o (IF style[r] = "loaded" THEN <<[op |-> "style.Destroy", ok |-> TRUE]>> ELSE <<>>)

\* The deferred calls generateSpeech runs when it returns: last deferred first.
Deferred(r) ==
  (IF style[r] = "loaded" THEN <<[op |-> "style.Destroy", ok |-> TRUE]>> ELSE <<>>)
  \o (IF bundle[r] = "loaded" THEN <<[op |-> "textToSpeech.Destroy", ok |-> TRUE]>> ELSE <<>>)

\* generateSpeech called op; returns: it returns right after the call.
Record(r, op, ok, returns) ==
  trace' = [trace EXCEPT ![r] =
              Append(@, [op |-> op, ok |-> ok])
              \o (IF returns THEN Deferred(r) ELSE <<>>)]

\* A bundle and style shared by the requests and destroyed by whoever returns.
RunDefersShared(r) ==
  /\ style' = [q \in Reqs |-> IF style[q] = "loaded" THEN "destroyed" ELSE style[q]]
  /\ bundle' = [q \in Reqs |-> IF bundle[q] = "loaded" THEN "destroyed" ELSE bundle[q]]

\* The deferred style.Destroy() and textToSpeech.Destroy() of generateSpeech.
RunDefers(r) ==
  /\ style' = [style EXCEPT ![r] = IF @ = "loaded" THEN "destroyed" ELSE @]
  /\ bundle' = [bundle EXCEPT ![r] = IF @ = "loaded" THEN "destroyed" ELSE @]

\* The handler without the return after a validation error.
AcceptedUnvalidated(in, v) == in.method = "POST" /\ in.bodyOk

\* handleTTSRequest's three checks: the request goes on to generateSpeech.
Accepted(in, v) == in.method = "POST" /\ in.bodyOk /\ v.err = "nil"

\* A TTSRequest variable of the package, shared by the handlers.
StoreRequestShared(r, v) == [q \in Reqs |-> v]

\* var req TTSRequest: the decoded and validated request is the handler's own.
StoreRequest(r, v) == [req EXCEPT ![r] = v]

\* handleTTSRequest up to the call of generateSpeech: method, JSON, validation.
HandleTTSRequest(r) ==
  /\ main.phase = "listening"
  /\ pc[r] = "idle"
  /\ \E in \in RequestInputs, statDefault, statAlt \in BOOLEAN :
       LET v == validateRequest(in.body, config, statDefault, statAlt) IN
       /\ recv' = [recv EXCEPT ![r] = in]
       /\ req' = IF in.method = "POST" /\ in.bodyOk THEN StoreRequest(r, v.req) ELSE req
       /\ IF Accepted(in, v)
            THEN /\ pc' = [pc EXCEPT ![r] = "generate"]
                 /\ resp' = resp
            ELSE IF in.method # "POST" THEN httpError(r, "Method not allowed", 405)
            ELSE IF ~in.bodyOk THEN sendError(r, "Invalid JSON", 400)
            ELSE sendError(r, v.err, 400)
  /\ UNCHANGED <<config, bundle, style, work, call, trace, pipeVars, startupVars, cancelled, lookup, tmpfiles>>

\* generateSpeech: cfg, err := tts.LoadCfgs(config.AssetsDir)
LoadCfgs(r) ==
  /\ pc[r] = "generate"
  /\ work' = [work EXCEPT ![r] = @ + 1]
  /\ \E ok \in BOOLEAN :
       /\ Record(r, "LoadCfgs", ok, ~ok)
       /\ IF ok THEN pc' = [pc EXCEPT ![r] = "cfg"] /\ resp' = resp
                ELSE generateSpeechFailed(r, "failed to load config")
  /\ UNCHANGED <<config, recv, req, bundle, style, call, pipeVars, startupVars, cancelled, lookup, tmpfiles>>

\* generateSpeech: textToSpeech, err := tts.LoadTextToSpeech(...)
LoadTextToSpeech(r) ==
  /\ pc[r] = "cfg"
  /\ work' = [work EXCEPT ![r] = @ + 1]
  /\ \E ok \in BOOLEAN :
       /\ Record(r, "LoadTextToSpeech", ok, ~ok)
       /\ IF ok THEN /\ pc' = [pc EXCEPT ![r] = "tts"]
                     /\ bundle' = [bundle EXCEPT ![r] = "loaded"]
                     /\ resp' = resp
                ELSE generateSpeechFailed(r, "failed to load TTS") /\ bundle' = bundle
  /\ UNCHANGED <<config, recv, req, style, call, pipeVars, startupVars, cancelled, lookup, tmpfiles>>

\* generateSpeech: voicePath, err := tts.GetVoicePath(req.Voice, ...)
FindVoicePath(r) ==
  /\ pc[r] = "tts"
  /\ \E statDefault, statAlt \in BOOLEAN :
       LET v == GetVoicePath(req[r].Voice, statDefault, statAlt) IN
       /\ Record(r, "GetVoicePath", v.err = "nil", v.err # "nil")
       /\ IF v.err = "nil"
            THEN pc' = [pc EXCEPT ![r] = "path"] /\ resp' = resp /\ UNCHANGED <<bundle, style>>
            ELSE generateSpeechFailed(r, v.err) /\ RunDefers(r)
  /\ UNCHANGED <<config, recv, req, work, call, pipeVars, startupVars, cancelled, lookup, tmpfiles>>

\* generateSpeech: style, err := tts.LoadVoiceStyle([]string{voicePath}, false)
LoadVoiceStyle(r) ==
  /\ pc[r] = "path"
  /\ work' = [work EXCEPT ![r] = @ + 1]
  /\ \E ok \in BOOLEAN :
       /\ Record(r, "LoadVoiceStyle", ok, ~ok)
       /\ IF ok THEN /\ pc' = [pc EXCEPT ![r] = "style"]
                     /\ style' = [style EXCEPT ![r] = "loaded"]
                     /\ resp' = resp /\ bundle' = bundle
                ELSE generateSpeechFailed(r, "failed to load voice style") /\ RunDefers(r)
  /\ UNCHANGED <<config, recv, req, call, pipeVars, startupVars, cancelled, lookup, tmpfiles>>

\* generateSpeech: wav, duration, err := textToSpeech.Call(req.Input, language,
\* style, totalStep, float32(req.Speed), 0.3).  Call tokenizes its text first.
Call(r) ==
  /\ pc[r] = "style"
  /\ work' = [work EXCEPT ![r] = @ + 1]
  /\ call' = [call EXCEPT ![r] =
                <<[totalStep |-> totalStepFor(req[r], config),
                   speed |-> Float32(req[r].Speed)]>>]
  /\ IF HasUnknownSymbol(req[r].Input)
       THEN /\ Record(r, "Call", FALSE, TRUE)
            /\ generateSpeechFailed(r, "speech generation failed: UnknownSymbol")
            /\ RunDefers(r)
       ELSE \E ok \in BOOLEAN :
              /\ Record(r, "Call", ok, ~ok)
              /\ IF ok THEN pc' = [pc EXCEPT ![r] = "called"] /\ resp' = resp
                            /\ UNCHANGED <<bundle, style>>
                       ELSE generateSpeechFailed(r, "speech generation failed") /\ RunDefers(r)
  /\ UNCHANGED <<config, recv, req, pipeVars, startupVars, cancelled, lookup, tmpfiles>>

\* generateSpeech: convertToFormat, the return, and handleTTSRequest's response.
ConvertAndRespond(r) ==
  /\ pc[r] = "called"
  /\ \E tmpOk \in TempFileResults :
       LET c == convertToFormat(req[r].ResponseFormat, tmpOk) IN
       /\ Record(r, "convertToFormat", c.err = "nil", TRUE)
       /\ tmpfiles' = [tmpfiles EXCEPT ![r] = c.files]
       /\ IF c.err = "nil"
            THEN /\ resp' = [resp EXCEPT ![r] =
                               [status |-> 200,
                                contentType |-> getContentType(req[r].ResponseFormat),
                                error |-> "", audio |-> c.audio]]
                 /\ pc' = [pc EXCEPT ![r] = "done"]
            ELSE generateSpeechFailed(r, "format conversion failed: " \o c.err)
  /\ RunDefers(r)
  /\ UNCHANGED <<config, recv, req, work, call, pipeVars, startupVars, cancelled, lookup>>

Next ==
  \E r \in Reqs :
    \/ HandleTTSRequest(r)
    \/ LoadCfgs(r)
    \/ LoadTextToSpeech(r)
    \/ FindVoicePath(r)
    \/ LoadVoiceStyle(r)
    \/ Call(r)
    \/ ConvertAndRespond(r)

Spec == Init /\ [][Next]_vars

----------------------------------------------------------------------------
\* main(), from flag.Parse to http.ListenAndServe.

\* log.Printf in the place of log.Fatalf: the error is logged and main() goes
\* on to start the server.
FatalfLogsOnly(msg, e) ==
  main' = [phase |-> "listening", fatal |-> [msg |-> msg, err |-> e.err, path |-> e.path]]

\* log.Fatalf: the message is logged and the process exits.
Fatalf(msg, e) ==
  main' = [phase |-> "exited", fatal |-> [msg |-> msg, err |-> e.err, path |-> e.path]]

\* The path findAssetsDir hands to filepath.Abs, if it gets that far.
AbsArgument(statCmd, statSystem, statLocal) ==
  IF cmdLinePath # <<>> THEN (IF statCmd = "dir" THEN cmdLinePath ELSE <<>>)
  ELSE IF statSystem = "dir" THEN systemPath
  ELSE IF statLocal = "dir" THEN localPath
  ELSE <<>>

\* config.AssetsDir, err = findAssetsDir(assetsDir)
FindAssetsDir ==
  /\ main.phase = "start"
  /\ \E statCmd, statSystem, statLocal \in StatResults, getwdOk \in BOOLEAN :
       LET d == findAssetsDir(cmdLinePath, statCmd, statSystem, statLocal, getwdOk)
           a == AbsArgument(statCmd, statSystem, statLocal)
       IN /\ seen' = [seen EXCEPT
                        !.cmd = IF cmdLinePath # <<>> THEN statCmd ELSE @,
                        !.system = IF cmdLinePath = <<>> THEN statSystem ELSE @,
                        !.local = IF cmdLinePath = <<>> /\ statSystem # "dir"
                                    THEN statLocal ELSE @,
                        !.getwd = IF a # <<>> /\ ~IsAbs(a)
                                    THEN (IF getwdOk THEN "ok" ELSE "err") ELSE @]
          /\ config' = [config EXCEPT !.AssetsDir = d.path]
          /\ IF d.err = "nil"
               THEN main' = [main EXCEPT !.phase = "located"]
               ELSE Fatalf("Failed to locate assets directory", d)
  /\ UNCHANGED <<cmdLinePath, requestVars, pipeVars, lookup>>

\* if err := tts.InitializeONNXRuntime(); err != nil { log.Fatalf(...) }
InitializeONNXRuntime ==
  /\ main.phase = "located"
  /\ \E ok \in BOOLEAN :
       IF ok THEN main' = [main EXCEPT !.phase = "initialized"]
             ELSE Fatalf("Failed to initialize ONNX Runtime",
                         [err |-> "onnxruntime", path |-> <<>>])
  /\ UNCHANGED <<config, cmdLinePath, seen, requestVars, pipeVars, lookup>>

\* if err := verifyAssets(); err != nil { log.Fatalf(...) }
VerifyAssets ==
  /\ main.phase = "initialized"
  /\ \E missing \in SUBSET {requiredFiles[i] : i \in DOMAIN requiredFiles},
        missingVoices \in MissingVoiceSets :
       LET e == verifyAssets(config.AssetsDir, missing, missingVoices) IN
       /\ seen' = [seen EXCEPT !.missing = missing, !.voices = e.warnings]
       /\ IF e.err = "nil"
            THEN main' = [main EXCEPT !.phase = "verified"]
            ELSE Fatalf("Asset verification failed", e)
  /\ UNCHANGED <<config, cmdLinePath, requestVars, pipeVars, lookup>>

\* log.Fatal(http.ListenAndServe(addr, mux)): the server listens, or the
\* port cannot be bound and the process exits.
ListenAndServe ==
  /\ main.phase = "verified"
  /\ \E ok \in BOOLEAN :
       IF ok THEN main' = [main EXCEPT !.phase = "listening"]
             ELSE Fatalf("", [err |-> "listen", path |-> <<>>])
  /\ UNCHANGED <<config, cmdLinePath, seen, requestVars, pipeVars, lookup>>

\* The process from flag.Parse on.
MainInit ==
  /\ config \in FlagValues
  /\ main = [phase |-> "start", fatal |-> NoError]
  /\ cmdLinePath \in CmdLinePaths
  /\ seen = Unseen
  /\ lookup = NoLookup
  /\ RequestsIdle
  /\ PipelineIdle

\* The startup steps and, once the server listens, the first request.
MainNext ==
  \/ FindAssetsDir
  \/ InitializeONNXRuntime
  \/ VerifyAssets
  \/ ListenAndServe
  \/ HandleTTSRequest(1)
  \/ LoadCfgs(1)
  \/ LoadTextToSpeech(1)
  \/ FindVoicePath(1)
  \/ LoadVoiceStyle(1)
  \/ Call(1)
  \/ ConvertAndRespond(1)

MainSpec == MainInit /\ [][MainNext]_vars

----------------------------------------------------------------------------
\* The client of request r closes its connection while r is being served:
\* net/http cancels r.Context().  The handler never reads the context.
ClientDisconnect(r) ==
  /\ pc[r] \notin {"idle", "done"}
  /\ ~cancelled[r]
  /\ cancelled' = [cancelled EXCEPT ![r] = TRUE]
  /\ UNCHANGED <<config, recv, pc, req, resp, bundle, style, work, call, trace,
                 tmpfiles, startupVars, pipeVars, lookup>>

\* The server with clients that may go away.
CancelNext ==
  \E r \in Reqs :
    \/ HandleTTSRequest(r)
    \/ LoadCfgs(r)
    \/ LoadTextToSpeech(r)
    \/ FindVoicePath(r)
    \/ LoadVoiceStyle(r)
    \/ Call(r)
    \/ ConvertAndRespond(r)
    \/ ClientDisconnect(r)

CancelSpec == Init /\ [][CancelNext]_vars

----------------------------------------------------------------------------
\* One call of tts.GetVoicePath, for every voice name and every answer of
\* the two os.Stat calls.
VoiceInit ==
  /\ config = [AssetsDir |-> systemPath, TotalStep |-> 5, DefaultSpeed |-> 100]
  /\ main = [phase |-> "listening", fatal |-> NoError]
  /\ cmdLinePath = <<>>
  /\ seen = [Unseen EXCEPT !.system = "dir"]
  /\ lookup \in {[NoLookup EXCEPT !.voiceName = v, !.statDefault = sd, !.statAlt = sa] :
                   v \in VoiceNames, sd \in BOOLEAN, sa \in BOOLEAN}
  /\ RequestsIdle
  /\ PipelineIdle

\* path, err := tts.GetVoicePath(voiceName)
LookupVoice ==
  /\ ~lookup.returned
  /\ LET v == GetVoicePath(lookup.voiceName, lookup.statDefault, lookup.statAlt) IN
     lookup' = [lookup EXCEPT !.returned = TRUE, !.path = v.path, !.err = v.err]
  /\ UNCHANGED <<config, requestVars, startupVars, pipeVars>>

VoiceNext == LookupVoice

VoiceSpec == VoiceInit /\ [][VoiceNext]_vars

----------------------------------------------------------------------------
\* The synthesis pipeline: tokenizer, length regulator, denoiser, vocoder and
\* stitcher of one Call.

\* Most denoising steps of a run.
MaxSteps == 2

\* Most tokens of a chunk (the model's position limit).
MaxChunkTokens == 2

\* Width of the acoustic-feature tensor.
FeatureWidth == 2

\* Predicted durations, in tenths of a frame.
DurValues == {0, 4, 30}

\* The speeds of the runs, in hundredths.
PipeSpeeds == {25, 100, 150, 400}

\* The texts of the runs.
Texts ==
  {<<"h">>, <<"h", "i", ".", "h">>, <<"i", "h", "i", "h", "i">>, <<"h", "#">>}

Punctuation == {"."}

Max(S) == CHOOSE x \in S : \A y \in S : y <= x

RECURSIVE SumSeq(_)
SumSeq(q) == IF q = <<>> THEN 0 ELSE Head(q) + SumSeq(Tail(q))

\* Tokenizer: chunks of at most limit tokens, cut after the last punctuation
\* within the limit, or at the limit when there is none.
RECURSIVE ChunkText(_, _)
ChunkText(text, limit) ==
  IF text = <<>> THEN <<>>
  ELSE IF Len(text) <= limit THEN <<text>>
  ELSE LET stops == {i \in 1..limit : text[i] \in Punctuation}
           cut == IF stops = {} THEN limit ELSE Max(stops)
       IN <<SubSeq(text, 1, cut)>> \o ChunkText(SubSeq(text, cut + 1, Len(text)), limit)

\* n / m rounded to the nearest integer (n >= 0, m > 0).
RoundDiv(n, m) == (2 * n + m) \div (2 * m)

\* A length regulator that scales by speed instead of 1/speed.
FramesForScaledUp(d, speed) == RoundDiv(d * speed, 1000)

\* Length regulator (a), (b): the duration d (tenths of a frame) scaled by
\* 1/speed and rounded to the nearest non-negative integer frame count.
FramesFor(d, speed) == RoundDiv(d * 10, speed)

\* Length regulator (c): totalFrames of a chunk, the sum of its tokens' frames.
TotalFrames(chunk, dur, speed) ==
  SumSeq([i \in DOMAIN chunk |-> FramesFor(dur[chunk[i]], speed)])

\* A sampler that stops one step early.
IsTerminalEarly(step, totalStep) == step >= totalStep - 1

\* Denoiser: the terminal condition.
IsTerminal(step, totalStep) == step = totalStep

\* Denoiser: one update of the latent; finite is FALSE when the engine's
\* output holds a NaN or an Inf.  The shape is that of the input.
DenoiseUpdate(latent, finite) == [latent EXCEPT !.finite = finite]

\* Vocoder: the samples of chunk c, one per frame, tagged with the chunk.
Vocode(c, latent) == [i \in 1..latent.rows |-> c]

\* A stitcher that appends the chunks as they complete.
StitchOrderByCompletion == completed

\* Stitcher: the order in which the arena is concatenated, the chunk order.
StitchOrder == [i \in 1..Len(chunks) |-> i]

RECURSIVE Flatten(_)
Flatten(qs) == IF qs = <<>> THEN <<>> ELSE Head(qs) \o Flatten(Tail(qs))

\* Stitcher: the concatenation of the arena.
Stitch == Flatten([i \in 1..Len(StitchOrder) |-> arena[StitchOrder[i]].samples])

NoLatent == [rows |-> 0, cols |-> 0, finite |-> TRUE]

NoResult == [done |-> FALSE, failed |-> FALSE, samples |-> <<>>, frames |-> 0]

PipeInit ==
  /\ config = [AssetsDir |-> systemPath, TotalStep |-> 5, DefaultSpeed |-> 100]
  /\ Listening
  /\ RequestsIdle
  /\ pText \in Texts
  /\ pSpeed \in PipeSpeeds
  /\ pTotalStep \in 1..MaxSteps
  /\ durations \in [Vocabulary -> DurValues]
  /\ chunks = <<>>
  /\ worker = <<>>
  /\ arena = <<>>
  /\ completed = <<>>
  /\ out = NoResult

\* Tokenizer: map the characters, fail on an unmapped one, split into chunks.
Tokenize ==
  /\ chunks = <<>> /\ ~out.done
  /\ IF HasUnknownSymbol(pText)
       THEN /\ out' = [NoResult EXCEPT !.done = TRUE, !.failed = TRUE]
            /\ UNCHANGED <<chunks, worker, arena>>
       ELSE /\ chunks' = ChunkText(pText, MaxChunkTokens)
            /\ worker' = [c \in 1..Len(chunks') |->
                            [state |-> "pending", step |-> 0, latent |-> NoLatent]]
            /\ arena' = [c \in 1..Len(chunks') |-> [filled |-> FALSE, samples |-> <<>>]]
            /\ out' = out
  /\ UNCHANGED <<serverVars, pText, pSpeed, pTotalStep, durations, completed>>

\* Encoder, duration predictor and length regulator of chunk c, and the
\* denoiser's initial state.  A chunk of zero frames is skipped.
StartChunk(c) ==
  /\ worker[c].state = "pending"
  /\ LET frames == TotalFrames(chunks[c], durations, pSpeed) IN
     \E ok \in BOOLEAN :
       IF ~ok
         THEN /\ worker' = [worker EXCEPT ![c].state = "error"]
              /\ UNCHANGED <<arena, completed>>
         ELSE IF frames = 0
           THEN /\ worker' = [worker EXCEPT ![c].state = "skipped"]
                /\ arena' = [arena EXCEPT ![c] = [filled |-> TRUE, samples |-> <<>>]]
                /\ completed' = Append(completed, c)
           ELSE /\ worker' = [worker EXCEPT ![c] =
                     [state |-> IF IsTerminal(0, pTotalStep) THEN "terminal" ELSE "running",
                      step |-> 0,
                      latent |-> [rows |-> frames, cols |-> FeatureWidth, finite |-> TRUE]]]
                /\ UNCHANGED <<arena, completed>>
  /\ UNCHANGED <<serverVars, pText, pSpeed, pTotalStep, durations, chunks, out>>

\* Denoiser: one transition of chunk c.
DenoiseStep(c) ==
  /\ worker[c].state = "running"
  /\ \E finite \in BOOLEAN :
       LET latent == DenoiseUpdate(worker[c].latent, finite) IN
       worker' = [worker EXCEPT ![c] =
         IF ~latent.finite
           THEN [state |-> "error", step |-> @.step, latent |-> latent]
           ELSE [state |-> IF IsTerminal(@.step + 1, pTotalStep) THEN "terminal" ELSE "running",
                 step |-> @.step + 1,
                 latent |-> latent]]
  /\ UNCHANGED <<serverVars, pText, pSpeed, pTotalStep, durations, chunks, arena, completed, out>>

\* Vocoder of chunk c: its samples go to the arena at the chunk's index.
VocodeChunk(c) ==
  /\ worker[c].state = "terminal"
  /\ worker' = [worker EXCEPT ![c].state = "done"]
  /\ arena' = [arena EXCEPT ![c] = [filled |-> TRUE, samples |-> Vocode(c, worker[c].latent)]]
  /\ completed' = Append(completed, c)
  /\ UNCHANGED <<serverVars, pText, pSpeed, pTotalStep, durations, chunks, out>>

\* Stitcher: concatenate once every index of the arena is populated.
StitchChunks ==
  /\ chunks # <<>> /\ ~out.done
  /\ \A c \in DOMAIN arena : arena[c].filled
  /\ out' = [done |-> TRUE, failed |-> FALSE, samples |-> Stitch,
             frames |-> SumSeq([c \in DOMAIN worker |-> worker[c].latent.rows])]
  /\ UNCHANGED <<serverVars, pText, pSpeed, pTotalStep, durations, chunks, worker, arena, completed>>

\* A chunk's error fails the run.
FailRun ==
  /\ ~out.done
  /\ \E c \in DOMAIN worker : worker[c].state = "error"
  /\ out' = [NoResult EXCEPT !.done = TRUE, !.failed = TRUE]
  /\ UNCHANGED <<serverVars, pText, pSpeed, pTotalStep, durations, chunks, worker, arena, completed>>

PipeNext ==
  \/ Tokenize
  \/ \E c \in DOMAIN worker : StartChunk(c)
  \/ \E c \in DOMAIN worker : DenoiseStep(c)
  \/ \E c \in DOMAIN worker : VocodeChunk(c)
  \/ StitchChunks
  \/ FailRun

PipeSpec == PipeInit /\ [][PipeNext]_vars

----------------------------------------------------------------------------
\* Properties of the pipeline.

\* The frames of chunk c at the speed of the run.
ChunkFrames(c) == TotalFrames(chunks[c], durations, pSpeed)

\* The number of samples of q that carry the tag c.
Count(q, c) == Cardinality({i \in DOMAIN q : q[i] = c})

\* C7: the result of a run is the concatenation of the chunks' sample
\* sequences in chunk order, whatever the order in which the chunks completed:
\* the arena is fully populated, every chunk's samples appear once, none is
\* dropped or duplicated, and a sample of an earlier chunk never follows one
\* of a later chunk.
C7_ChunkOrderPreserved ==
  (out.done /\ ~out.failed) =>
    /\ \A c \in DOMAIN arena :
         /\ arena[c].filled
         /\ arena[c].samples = [i \in 1..ChunkFrames(c) |-> c]
         /\ Count(out.samples, c) = ChunkFrames(c)
    /\ \A i, j \in DOMAIN out.samples : i < j => out.samples[i] <= out.samples[j]
    /\ Len(out.samples) = out.frames

\* C7 witness: a stitched run of chunks with samples in which a later chunk
\* completed before an earlier one.
C7_Witness ==
  /\ out.done /\ ~out.failed
  /\ \E i, j \in DOMAIN completed :
       /\ i < j /\ completed[i] > completed[j]
       /\ arena[completed[i]].samples # <<>>
       /\ arena[completed[j]].samples # <<>>

\* The denoiser of chunk c has been started.
Started(c) == worker[c].state \in {"running", "terminal", "done"}

DenoiserInv(c) ==
  LET w == worker[c] IN
  /\ w.step \in 0..pTotalStep
  /\ w.state \in {"terminal", "done"} => w.step = pTotalStep
  /\ w.state = "running" => w.step < pTotalStep
  /\ Started(c) =>
       /\ w.latent.finite
       /\ w.latent.rows = ChunkFrames(c)
       /\ w.latent.cols = FeatureWidth
  /\ ~w.latent.finite => w.state = "error"

DenoiserStepOK(c) ==
  LET w == worker[c]
      v == worker'[c]
  IN /\ v.step \in {w.step, w.step + 1}
     /\ v.step = w.step + 1 => w.state = "running"
     /\ (w.state = "running" /\ v # w /\ v.state # "error") => v.step = w.step + 1
     /\ w.state \in {"running", "terminal"} =>
          v.latent.rows = w.latent.rows /\ v.latent.cols = w.latent.cols
     /\ w.state = "error" => v = w

\* C8: for every totalStep >= 1 the denoiser of a chunk makes exactly
\* totalStep transitions, the step index advancing by one each time; it is
\* terminal exactly when step = totalStep; the latent keeps the shape
\* [totalFrames, featureWidth] from the initial to the terminal state; a
\* latent with a NaN or Inf puts the chunk in the error state, where it stays.
C8_DenoiserStateMachine ==
  /\ [](\A c \in DOMAIN worker : DenoiserInv(c))
  /\ [][\A c \in DOMAIN worker : DenoiserStepOK(c)]_vars

\* C8 witness: one chunk reached the terminal state after two steps and
\* another one ended in the error state on a non-finite latent.
C8_Witness ==
  \E c, d \in DOMAIN worker :
    /\ pTotalStep >= 2
    /\ worker[c].state = "terminal" /\ worker[c].step = pTotalStep
    /\ worker[d].state = "error" /\ ~worker[d].latent.finite

\* The speeds 0.25, 0.30, ... 4.0, in hundredths.
SpeedGrid == {s \in 25..400 : s % 5 = 0}

\* C9: for the predicted durations of a run, the total frame count of every
\* chunk, and so the duration of the result, does not increase when the speed
\* increases over [0.25, 4.0]: no higher speed gives more frames than the run
\* produced, and no lower speed gives fewer.
C9_MonotonicSpeed ==
  /\ \A c \in DOMAIN worker :
       Started(c) =>
         \A s \in SpeedGrid :
           /\ s >= pSpeed => TotalFrames(chunks[c], durations, s) <= worker[c].latent.rows
           /\ s <= pSpeed => TotalFrames(chunks[c], durations, s) >= worker[c].latent.rows
  /\ (out.done /\ ~out.failed) =>
       \A s \in SpeedGrid :
         LET total == SumSeq([c \in DOMAIN chunks |-> TotalFrames(chunks[c], durations, s)])
         IN /\ s >= pSpeed => total <= out.frames
            /\ s <= pSpeed => total >= out.frames

\* C9 witness: a chunk regulated at speed 1.0 has frames, fewer at 4.0 and
\* more at 0.25.
C9_Witness ==
  \E c \in DOMAIN worker :
    /\ Started(c) /\ pSpeed = 100
    /\ TotalFrames(chunks[c], durations, 400) < worker[c].latent.rows
    /\ TotalFrames(chunks[c], durations, 25) > worker[c].latent.rows

----------------------------------------------------------------------------
\* Properties of the server.

\* Request r has started model work: a load or a run.
ModelWorkStarted(r) ==
  work[r] > 0 \/ bundle[r] # "none" \/ style[r] # "none" \/ call[r] # <<>>

\* Request r was refused by one of handleTTSRequest's three checks.
Refused(r) ==
  \/ recv[r].method # "POST"
  \/ ~recv[r].bodyOk
  \/ \A sd, sa \in BOOLEAN : validateRequest(recv[r].body, config, sd, sa).err # "nil"

\* C1: model work (LoadCfgs, LoadTextToSpeech, LoadVoiceStyle, Call) is started
\* only for a POST request whose body decoded and that validateRequest let
\* pass; a request refused by one of the three checks ends with an error
\* response (405 or 400) and no model work.
C1_NoModelWorkBeforeChecks ==
  \A r \in Reqs :
    /\ ModelWorkStarted(r) => ~Refused(r)
    /\ (pc[r] # "idle" /\ Refused(r)) =>
         /\ pc[r] = "done"
         /\ resp[r].status \in {400, 405}
         /\ resp[r].audio = "none"
         /\ ~ModelWorkStarted(r)

\* C1 witness: one request was refused by validation and another, accepted,
\* has loaded its models.
C1_Witness ==
  \E r, q \in Reqs :
    /\ pc[r] = "done" /\ resp[r].status = 400 /\ recv[r].method = "POST" /\ recv[r].bodyOk
    /\ bundle[q] = "loaded" /\ work[q] >= 2

\* C2: textToSpeech.Call is only ever invoked with a speed in [0.25, 4.0],
\* whatever the configured default speed is.
C2_CallSpeedInRange ==
  \A r \in Reqs : call[r] # <<>> => call[r][1].speed \in 25..400

\* C3: textToSpeech.Call is never invoked with a step count below 1, whatever
\* --total-step is.
C3_CallStepsAtLeastOne ==
  \A r \in Reqs : call[r] # <<>> => call[r][1].totalStep >= 1

\* C4: over the requests one process serves, the model bundle is loaded at
\* most once.
C4_BundleLoadedAtMostOnce ==
  Cardinality({r \in Reqs : bundle[r] # "none"}) <= 1

\* C5: the number of requests that hold loaded models at the same time stays
\* below the number of requests that arrived concurrently: some limit is kept.
C5_ConcurrencyLimited ==
  Cardinality({r \in Reqs : bundle[r] = "loaded"}) < NumRequests

\* Everything the handler of request q reads or writes for q.
LocalState(q) ==
  <<recv[q], pc[q], req[q], resp[q], bundle[q], style[q], work[q], call[q],
    tmpfiles[q]>>

\* Request r fails in this step: it ends with an error response.
FailsNow(r) == pc[r] # "done" /\ pc'[r] = "done" /\ resp'[r].status # 200

\* The parameters request q runs with are those of its own request and the
\* configuration.
OwnParameters(q) ==
  /\ pc[q] \notin {"idle", "done"} => req[q] = FillDefaults(recv[q].body, config)
  /\ call[q] # <<>> =>
       call[q][1] = [totalStep |-> totalStepFor(FillDefaults(recv[q].body, config), config),
                     speed |-> Float32(FillDefaults(recv[q].body, config).Speed)]

\* C6: a step in which one request fails changes nothing of any other
\* request (its position, request value, response, models, style, parameters)
\* nor the configuration, and writes the error to the failing request only;
\* every request runs with the parameters of its own request.
C6_FailuresIsolated ==
  /\ [](\A q \in Reqs : OwnParameters(q))
  /\ [][\A r \in Reqs : FailsNow(r) =>
          /\ config' = config
          /\ \A q \in Reqs \ {r} : LocalState(q)' = LocalState(q)]_vars

\* C6 witness: a request has failed in generateSpeech while another one holds
\* its models and style, about to run Call.
C6_Witness ==
  \E r, q \in Reqs :
    /\ r # q
    /\ pc[r] = "done" /\ resp[r].status = 500
    /\ pc[q] = "style" /\ bundle[q] = "loaded" /\ style[q] = "loaded"

\* C10: a request that fails with UnknownSymbol has loaded no model and no
\* style before the failure.
C10_UnknownSymbolBeforeModels ==
  \A r \in Reqs :
    resp[r].error = "Speech generation failed: speech generation failed: UnknownSymbol"
      => bundle[r] = "none" /\ style[r] = "none"

----------------------------------------------------------------------------
\* Properties of the startup.

\* The required files before position i of requiredFiles all exist.
FirstMissing(i) ==
  /\ requiredFiles[i] \in seen.missing
  /\ \A j \in 1..(i - 1) : requiredFiles[j] \notin seen.missing

\* C11: when one of the six required files is missing in the onnx directory,
\* verifyAssets returns the error that names the first missing file of the
\* list, main() exits on it, the server never listens and serves no request;
\* when the six files exist verifyAssets returns no error.
C11_MissingAssetFailsStartup ==
  /\ seen.missing # {} =>
       /\ main.phase = "exited"
       /\ main.fatal.msg = "Asset verification failed"
       /\ main.fatal.err = "missing required ONNX file"
       /\ \E i \in DOMAIN requiredFiles :
            /\ FirstMissing(i)
            /\ main.fatal.path = Join(Join(config.AssetsDir, "onnx"), requiredFiles[i])
       /\ \A r \in Reqs : pc[r] = "idle"
  /\ main.fatal.msg = "Asset verification failed" => seen.missing # {}
  /\ main.phase \in {"verified", "listening"} => seen.missing = {}

\* Two files are missing and startup has failed on the first of them.
C11_Witness ==
  /\ main.phase = "exited"
  /\ seen.missing = {"tts.json", "text_encoder.onnx"}
  /\ main.fatal.path = Join(Join(config.AssetsDir, "onnx"), "text_encoder.onnx")

\* C12: every mapped voice's style file is checked at startup and a missing
\* one fails the startup: a server that listens has found them all.
C12_MissingVoiceFailsStartup ==
  main.phase = "listening" => seen.voices = {}

\* The path findAssetsDir returned is p, as given or made absolute.
SamePath(result, p) == result = p \/ result = Abs(p, TRUE).path

\* findAssetsDir returned no error.
Located == main.fatal.msg # "Failed to locate assets directory"

\* C17: findAssetsDir returns the command-line path when it is given and is
\* a directory, and an error (no fallback) when it is given and is none;
\* without one it returns /var/lib/supertonic/assets if that is a directory,
\* else ./assets if that is a directory, else an error; a result without
\* error is always a path that was seen to be a directory.
C17_FindAssetsDirPriority ==
  main.phase # "start" =>
    /\ cmdLinePath # <<>> =>
         IF seen.cmd = "dir" THEN Located /\ SamePath(config.AssetsDir, cmdLinePath)
                             ELSE ~Located
    /\ cmdLinePath = <<>> =>
         IF seen.system = "dir" THEN Located /\ SamePath(config.AssetsDir, systemPath)
         ELSE IF seen.local = "dir" THEN Located /\ SamePath(config.AssetsDir, localPath)
         ELSE ~Located

\* C20: the tts-1-hd model is the higher-quality one: the step count Call
\* gets for a tts-1 request is never above the one it gets for tts-1-hd.
C20_HdAtLeastStandard ==
  \A r \in Reqs :
    (call[r] # <<>> /\ req[r].Model = "tts-1") =>
      call[r][1].totalStep <= totalStepFor([req[r] EXCEPT !.Model = "tts-1-hd"], config)

----------------------------------------------------------------------------
\* Properties of tts.GetVoicePath.

\* C16: GetVoicePath returns an error for a name that is no key of
\* VoiceMapping; for a key it returns the mapped path if os.Stat finds it,
\* else the path under /var/lib/supertonic if os.Stat finds that, else an
\* error; a returned path is one whose os.Stat succeeded.
C16_VoicePathLookup ==
  lookup.returned =>
    LET mapped == lookup.voiceName \in DOMAIN VoiceMapping IN
    /\ ~mapped => lookup.err # "nil" /\ lookup.path = <<>>
    /\ mapped =>
         IF lookup.statDefault
           THEN lookup.err = "nil" /\ lookup.path = VoiceMapping[lookup.voiceName]
         ELSE IF lookup.statAlt
           THEN /\ lookup.err = "nil"
                /\ lookup.path = <<"/var/lib/supertonic">> \o VoiceMapping[lookup.voiceName]
         ELSE lookup.err # "nil" /\ lookup.path = <<>>
    /\ lookup.err = "nil" =>
         \/ lookup.statDefault /\ lookup.path = VoiceMapping[lookup.voiceName]
         \/ /\ lookup.statAlt
            /\ lookup.path = <<"/var/lib/supertonic">> \o VoiceMapping[lookup.voiceName]

\* Both files exist and the default location was returned.
C16_Witness ==
  /\ lookup.returned /\ lookup.voiceName = "F5"
  /\ lookup.statDefault /\ lookup.statAlt
  /\ lookup.path = VoiceMapping["F5"]

----------------------------------------------------------------------------
\* Properties of the request handling.

\* C13: once the client of a request has gone, the request starts no model
\* load or run and calls Call no more, and the client's going changes no
\* other request.
C13_AbortStopsWork ==
  [][\A r \in Reqs :
       /\ cancelled[r] => work'[r] = work[r] /\ call'[r] = call[r]
       /\ cancelled'[r] # cancelled[r] =>
            \A q \in Reqs \ {r} : LocalState(q)' = LocalState(q)]_vars

\* The steps of generateSpeech that the claim about retries names.
Steps == {"LoadCfgs", "LoadTextToSpeech", "GetVoicePath", "LoadVoiceStyle", "Call"}

\* The positions of the calls of op in the trace of r.
Calls(r, op) == {i \in DOMAIN trace[r] : trace[r][i].op = op}

Destroys == {"style.Destroy", "textToSpeech.Destroy"}

\* C14: no step of generateSpeech is attempted twice for a request, and
\* after the first failing step the request only runs its deferred Destroy
\* calls and ends with the error.
C14_NoRetry ==
  \A r \in Reqs :
    /\ \A op \in Steps : Cardinality(Calls(r, op)) <= 1
    /\ \A i \in DOMAIN trace[r] :
         ~trace[r][i].ok =>
           /\ pc[r] = "done" /\ resp[r].status = 500
           /\ \A j \in DOMAIN trace[r] : j > i => trace[r][j].op \in Destroys

\* A request whose voice style failed to load, after three steps that passed.
C14_Witness ==
  \E r \in Reqs :
    /\ pc[r] = "done" /\ Len(trace[r]) = 5
    /\ trace[r][4] = [op |-> "LoadVoiceStyle", ok |-> FALSE]
    /\ work[r] = 3

NonWavFormats == validFormats \ {"wav"}

\* C15: mp3, opus, aac, flac and pcm pass validateRequest, convertToFormat
\* returns an error and no audio for each of them, a request with one of
\* them ends in an error response, and a request that ends in an audio
\* response asked for wav, by name or by leaving the format empty.
C15_NonWavNeverAudio ==
  /\ \A f \in NonWavFormats :
       /\ validateRequest([FullBody EXCEPT !.ResponseFormat = f], config, TRUE, TRUE).err = "nil"
       /\ \A tmpOk \in TempFileResults :
            /\ convertToFormat(f, tmpOk).err = "format not implemented yet"
            /\ convertToFormat(f, tmpOk).audio = "nil"
  /\ \A r \in Reqs :
       /\ resp[r].status = 200 =>
            req[r].ResponseFormat = "wav" /\ recv[r].body.ResponseFormat \in {"", "wav"}
       /\ (pc[r] = "done" /\ recv[r].body.ResponseFormat \in NonWavFormats) =>
            resp[r].status \in {400, 500} /\ resp[r].audio = "none"
       /\ (Calls(r, "convertToFormat") # {} /\ req[r].ResponseFormat \in NonWavFormats) =>
            resp[r].error =
              "Speech generation failed: format conversion failed: format not implemented yet"

\* An mp3 request that got as far as convertToFormat and was refused there.
C15_Witness ==
  \E r \in Reqs :
    /\ pc[r] = "done" /\ req[r].ResponseFormat = "mp3"
    /\ Calls(r, "convertToFormat") # {}
    /\ resp[r].status = 500

\* Request r loaded what op loads.
Loaded(r, op) == \E i \in DOMAIN trace[r] : trace[r][i] = [op |-> op, ok |-> TRUE]

\* C18: a bundle or style is destroyed at most once and only after it was
\* loaded, the style before the bundle; a request that has returned has
\* destroyed each of the two it loaded exactly once and holds nothing loaded.
C18_ResourcesReleased ==
  \A r \in Reqs :
    /\ Cardinality(Calls(r, "textToSpeech.Destroy")) <= 1
    /\ Cardinality(Calls(r, "style.Destroy")) <= 1
    /\ \A j \in Calls(r, "textToSpeech.Destroy") :
         \E i \in 1..(j - 1) : trace[r][i] = [op |-> "LoadTextToSpeech", ok |-> TRUE]
    /\ \A j \in Calls(r, "style.Destroy") :
         \E i \in 1..(j - 1) : trace[r][i] = [op |-> "LoadVoiceStyle", ok |-> TRUE]
    /\ \A i \in Calls(r, "style.Destroy"), j \in Calls(r, "textToSpeech.Destroy") : i < j
    /\ bundle[r] = "destroyed" <=> Calls(r, "textToSpeech.Destroy") # {}
    /\ style[r] = "destroyed" <=> Calls(r, "style.Destroy") # {}
    /\ bundle[r] = "loaded" => Loaded(r, "LoadTextToSpeech")
    /\ style[r] = "loaded" => Loaded(r, "LoadVoiceStyle")
    /\ pc[r] = "done" =>
         /\ bundle[r] # "loaded" /\ style[r] # "loaded"
         /\ Loaded(r, "LoadTextToSpeech") => Cardinality(Calls(r, "textToSpeech.Destroy")) = 1
         /\ Loaded(r, "LoadVoiceStyle") => Cardinality(Calls(r, "style.Destroy")) = 1

\* Every request has returned; one of them failed in Call and destroyed its
\* style and then its bundle.
C18_Witness ==
  /\ \A r \in Reqs : pc[r] = "done"
  /\ \E r \in Reqs :
       /\ Len(trace[r]) = 7
       /\ trace[r][5] = [op |-> "Call", ok |-> FALSE]
       /\ trace[r][6].op = "style.Destroy"
       /\ trace[r][7].op = "textToSpeech.Destroy"

\* The errors generateSpeech returns.
GenerateErrors ==
  {"failed to load config", "failed to load TTS", "unsupported voice",
   "voice style file not found", "failed to load voice style",
   "speech generation failed", "speech generation failed: UnknownSymbol",
   "format conversion failed: format not implemented yet"}

\* The outcome of a request that has been answered.
Outcome(r) ==
  IF recv[r].method # "POST"
    THEN resp[r].status = 405 /\ resp[r].error = "Method not allowed"
         /\ resp[r].audio = "none"
  ELSE IF ~recv[r].bodyOk
    THEN resp[r].status = 400 /\ resp[r].contentType = "application/json"
         /\ resp[r].error = "Invalid JSON" /\ resp[r].audio = "none"
  ELSE IF trace[r] = <<>>
    THEN /\ resp[r].status = 400 /\ resp[r].contentType = "application/json"
         /\ resp[r].audio = "none"
         /\ \E sd, sa \in BOOLEAN :
              validateRequest(recv[r].body, config, sd, sa).err = resp[r].error
         /\ resp[r].error # "nil"
  ELSE IF \E i \in DOMAIN trace[r] : ~trace[r][i].ok
    THEN /\ resp[r].status = 500 /\ resp[r].contentType = "application/json"
         /\ resp[r].audio = "none"
         /\ \E e \in GenerateErrors : resp[r].error = "Speech generation failed: " \o e
  ELSE /\ resp[r].status = 200 /\ resp[r].error = ""
       /\ resp[r].contentType = getContentType(req[r].ResponseFormat)
       /\ resp[r].audio # "none"

\* C19: a request gets one outcome: 405 for a method other than POST; 400
\* with a JSON error body for an undecodable body or an error of
\* validateRequest; 500 with a JSON error body that starts with 'Speech
\* generation failed: ' for an error of generateSpeech; an audio response
\* otherwise.  Nothing is written before, and the response never changes.
C19_ExactlyOneOutcome ==
  /\ [](\A r \in Reqs :
          /\ pc[r] # "done" => resp[r] = NoResponse
          /\ pc[r] = "done" => Outcome(r)
          /\ resp[r].status # 200 => resp[r].audio = "none")
  /\ [][\A r \in Reqs : resp[r] # NoResponse => resp'[r] = resp[r]]_vars

\* One request got the 500 of generateSpeech and another its audio.
C19_Witness ==
  \E r, q \in Reqs :
    /\ pc[r] = "done" /\ resp[r].status = 500
    /\ resp[r].error = "Speech generation failed: failed to load TTS"
    /\ pc[q] = "done" /\ resp[q].status = 200 /\ resp[q].audio = "wav bytes"

----------------------------------------------------------------------------
\* Properties of validateRequest.

\* Field f of the validated request is the one received, or the received one
\* was empty and it is the default d.
KeptOrDefault(got, sent, empty, d) == got = sent \/ (sent = empty /\ got = d)

\* C21: validateRequest writes a default only into an empty field (F5,
\* tts-1, wav, the configured default speed), changes no other field and
\* never the input, and validating the validated request again gives the
\* same error and the same request.  A request without input is refused
\* before the defaults and stays as it was.
C21_DefaultsOnlyForEmptyFields ==
  \A r \in Reqs :
    (recv[r].method = "POST" /\ recv[r].bodyOk) =>
      LET b == recv[r].body IN
      /\ req[r].Input = b.Input
      /\ KeptOrDefault(req[r].Voice, b.Voice, "", "F5")
      /\ KeptOrDefault(req[r].Model, b.Model, "", "tts-1")
      /\ KeptOrDefault(req[r].ResponseFormat, b.ResponseFormat, "", "wav")
      /\ KeptOrDefault(req[r].Speed, b.Speed, 0, config.DefaultSpeed)
      /\ IF b.Input = <<>>
           THEN req[r] = b
           ELSE /\ req[r].Voice # "" /\ req[r].Model # "" /\ req[r].ResponseFormat # ""
                /\ req[r].Speed = 0 => config.DefaultSpeed = 0
      /\ \A sd, sa \in BOOLEAN :
           LET v == validateRequest(b, config, sd, sa) IN
           /\ v.req = req[r]
           /\ validateRequest(v.req, config, sd, sa) = v

\* A request that gave only its input has every default, and one that gave
\* every field has kept them.
C21_Witness ==
  \E r \in Reqs :
    /\ pc[r] = "done" /\ recv[r].body = BaseBody
    /\ req[r] = [BaseBody EXCEPT !.Voice = "F5", !.Model = "tts-1",
                                 !.ResponseFormat = "wav", !.Speed = config.DefaultSpeed]
    /\ FillDefaults(FullBody, config) = FullBody

----------------------------------------------------------------------------
\* Properties of the configuration.

\* C22: no step of a request changes a field of config, and the only
\* TTSRequest a step writes is the one of the request that is being decoded
\* and validated.
C22_ConfigReadOnly ==
  [][/\ config' = config
     /\ \A r \in Reqs :
          req'[r] # req[r] =>
            /\ pc[r] = "idle" /\ pc'[r] # "idle"
            /\ \A q \in Reqs \ {r} : req'[q] = req[q]]_vars

\* A refused request and a request that failed in generateSpeech have been
\* answered; the second got its speed from the configuration.
C22_Witness ==
  \E r, q \in Reqs :
    /\ pc[r] = "done" /\ resp[r].status = 400
    /\ pc[q] = "done" /\ resp[q].status = 500
    /\ recv[q].body.Speed = 0 /\ req[q].Speed = config.DefaultSpeed
    /\ config \in ConfigValues

----------------------------------------------------------------------------
\* Properties of wavToBytes.

\* C23: a request answered with success carries the WAV bytes: when
\* wavToBytes cannot create or read its temporary file the request is
\* answered with an error.
C23_WavFailureReported ==
  \A r \in Reqs : resp[r].status = 200 => resp[r].audio = "wav bytes"

\* The positions of the file operation op of request r.
FileOps(r, op) == {i \in DOMAIN tmpfiles[r] : tmpfiles[r][i].op = op}

\* C24: a temporary file that wavToBytes created is closed and then removed,
\* once each, before the request is answered, after a read error as after a
\* read; no file is closed or removed that was not created.
C24_TempFilesRemoved ==
  \A r \in Reqs :
    LET created == {i \in FileOps(r, "os.CreateTemp") : tmpfiles[r][i].ok} IN
    /\ pc[r] # "done" => tmpfiles[r] = <<>>
    /\ Cardinality(FileOps(r, "os.CreateTemp")) <= 1
    /\ Cardinality(FileOps(r, "tmpfile.Close")) = Cardinality(created)
    /\ Cardinality(FileOps(r, "os.Remove")) = Cardinality(created)
    /\ \A i \in created :
         \E j \in FileOps(r, "tmpfile.Close"), k \in FileOps(r, "os.Remove") :
           i < j /\ j < k

\* Every request is answered and one of them could not read its file back.
C24_Witness ==
  /\ \A r \in Reqs : pc[r] = "done"
  /\ \E r \in Reqs :
       /\ Len(tmpfiles[r]) = 4
       /\ tmpfiles[r][2] = [op |-> "io.ReadAll", ok |-> FALSE]
       /\ tmpfiles[r][4] = [op |-> "os.Remove", ok |-> TRUE]

----------------------------------------------------------------------------
\* Properties of the order of the startup.

\* The steps of main() in program order: flags parsed, assets directory
\* resolved, ONNX runtime initialized, assets verified, server listening.
StartupOrder == <<"start", "located", "initialized", "verified", "listening">>

\* C25: main() reaches http.ListenAndServe only through findAssetsDir, then
\* tts.InitializeONNXRuntime, then verifyAssets, each without error; an error
\* of one of them ends the process, which then never listens; a request is
\* served only by a listening process, and that process had no startup error.
C25_StartupOrdering ==
  /\ [](/\ \A r \in Reqs : pc[r] # "idle" => main.phase = "listening"
        /\ main.fatal # NoError <=> main.phase = "exited"
        /\ main.phase \in {"verified", "listening"} =>
             /\ seen.missing = {}
             /\ "dir" \in {seen.cmd, seen.system, seen.local}
        /\ main.phase = "exited" => \A r \in Reqs : pc[r] = "idle")
  /\ [][main.phase' # main.phase =>
          \/ \E i \in 1..(Len(StartupOrder) - 1) :
               main.phase = StartupOrder[i] /\ main.phase' = StartupOrder[i + 1]
          \/ /\ main.phase' = "exited"
             /\ main.phase \in {"start", "located", "initialized", "verified"}]_vars

\* A server started with --assets-dir has answered its first request with
\* audio.
C25_Witness ==
  /\ main.phase = "listening" /\ cmdLinePath # <<>> /\ seen.cmd = "dir"
  /\ \E r \in Reqs : pc[r] = "done" /\ resp[r].status = 200

====
